---- MODULE Spec2Model ----
(***************************************************************************)
(* Model of the microgrid dispatch simulation (modules/simulation_engine.py *)
(* run_simulation) together with the input validation that the application *)
(* runs in front of it (modules/validation.py validate_inputs).             *)
(* Spec is one call of the engine; RerunSpec calls it a second time with    *)
(* the same arguments; SankeySpec hands the returned ledger to the flow     *)
(* attributor (modules/results_analyzer.py create_sankey_chart).            *)
(*                                                                         *)
(* Numbers.  The program computes with IEEE-754 binary floating point      *)
(* (Python float / numpy float64, round-to-nearest-even).  The model keeps *)
(* the rounding and shortens the significand: a number is an integer count *)
(* of quanta (One quanta make 1.0), and it is representable when its       *)
(* significand fits in Precision bits.  Below 2^Precision quanta the grid  *)
(* is uniform, as it is for IEEE subnormals.  Every arithmetic operation   *)
(* of the source is the exact operation followed by FRound.                *)
(***************************************************************************)
EXTENDS Integers, Sequences, FiniteSets, TLC

\* ------------------------------------------------------------------ bounds
Precision == 3      \* significand bits of the modelled float format
MaxLen    == 2      \* longest input series

\* --------------------------------------------------- floating point format
One == 2 ^ Precision          \* the number 1.0 in quanta

\* n/D (n >= 0, D > 0) rounded to the nearest integer, ties to even
RoundHalfEven(n, D) ==
    LET fl  == n \div D
        rem == n % D
    IN  IF 2 * rem < D THEN fl
        ELSE IF 2 * rem > D THEN fl + 1
        ELSE IF fl % 2 = 0 THEN fl ELSE fl + 1

\* smallest e >= from with n/d < 2^(Precision+e)
RECURSIVE Exponent(_, _, _)
Exponent(n, d, from) ==
    IF n < d * 2 ^ (Precision + from) THEN from ELSE Exponent(n, d, from + 1)

\* the rational n/d (d > 0), in quanta, rounded to a representable number
FRound(n, d) ==
    LET a == IF n < 0 THEN -n ELSE n
        e == Exponent(a, d, 0)
        m == RoundHalfEven(a, d * 2 ^ e) * 2 ^ e
    IN  IF n < 0 THEN -m ELSE m

IsFloat(x) == FRound(x, 1) = x

FAdd(a, b) == FRound(a + b, 1)
FSub(a, b) == FRound(a - b, 1)
FMul(a, b) == FRound(a * b, One)
\* b # 0
FDiv(a, b) == IF b < 0 THEN FRound(-(a * One), -b) ELSE FRound(a * One, b)
\* multiplication and division by an integer literal of the source
FMulInt(a, k) == FRound(a * k, 1)
FDivInt(a, k) == FRound(a, k)

\* ------------------------------------------------------------ input domains
\* 1024 kW, the scale of the series values
K == 1024 * One

LoadVals  == {-K, 0, 8 * K}
SolarVals == {0, 5 * K}
WindVals  == {0, K \div 2}
\* storage configurations <<capacity MWh, power MW, efficiency>>: the valid
\* ones, a zero capacity, and one illegal parameter at a time
Eta75 == (3 * One) \div 4
StorageConfigs ==
    ({7 * One} \X {One, 8 * One} \X {Eta75, One})
    \cup { <<0, 8 * One, Eta75>>,
           <<0, 0, One>>,
           <<-7 * One, 8 * One, Eta75>>,
           <<7 * One, -One, Eta75>>,
           <<7 * One, 8 * One, 0>>,
           <<7 * One, One, 0>>,
           <<7 * One, 8 * One, (3 * One) \div 2>> }

RECURSIVE SeqsUpTo(_, _)
SeqsUpTo(S, n) ==
    IF n = 0 THEN {<<>>}
    ELSE LET shorter == SeqsUpTo(S, n - 1)
         IN  shorter \cup {Append(q, v) : q \in {r \in shorter : Len(r) = n - 1}, v \in S}

\* -------------------------------------------------------------------- state
VARIABLES
    pc,                     \* where the caller is: idle, validated, rejected, loop, returned, failed,
                            \* attributing, charted
    mine_load,              \* the demand series passed to run_simulation
    solar_power,            \* the photovoltaic series
    wind_power,             \* the wind series
    battery_capacity_mwh,   \* user input, MWh
    battery_power_mw,       \* user input, MW
    round_trip_efficiency,  \* user input / kwarg
    validation_errors,      \* errors list of validate_inputs (as a set of parameter names)
    battery_capacity_kwh,   \* run_simulation local: capacity in kWh
    battery_power_kw,       \* run_simulation local: maximum power in kW
    battery_soc_kwh,        \* run_simulation local: stored energy
    soc_is_np,              \* battery_soc_kwh is a numpy float64 (TRUE) or a Python float (FALSE)
    results,                \* run_simulation local: list of hour_result dicts
    raised,                 \* exception caught by run_simulation's except clause, or "none"
    returned,               \* return value: "pending", "DataFrame" (results is the ledger) or "None"
    initial_soc,            \* config.py DEFAULT_CONFIG["battery"]["initial_soc"], the configured initial fraction
    first_run,              \* what an earlier call of run_simulation with the same arguments handed back
    hour,                   \* create_sankey_chart: number of ledger rows the loop has processed
    flows,                  \* create_sankey_chart: the eight flow accumulators
    hours,                  \* create_sankey_chart: the locals of each finished iteration
    columns,                \* the column names of the ledger DataFrame handed to the consumers
    added_columns,          \* the columns written into that DataFrame after run_simulation built it
    links,                  \* create_sankey_chart: the source, target and value lists, as triples
    chart,                  \* create_sankey_chart: the figure returned: "none" yet, "sankey" or "error"
    tasks,                  \* AsyncTaskManager.tasks: task id -> TaskResult
    running_tasks,          \* AsyncTaskManager.running_tasks, the ids that have a thread registered
    thread,                 \* task id -> where its thread is in _execute_task, and what func handed back
    cancel_true,            \* the ids for which cancel_task has returned True
    failure_threshold,      \* CircuitBreaker.failure_threshold
    recovery_timeout,       \* CircuitBreaker.recovery_timeout, in ticks of the clock
    expected_exception,     \* CircuitBreaker.expected_exception: the exception types it counts
    failure_count,          \* CircuitBreaker.failure_count
    last_failure_time,      \* CircuitBreaker.last_failure_time ("None" before the first failure)
    state,                  \* CircuitBreaker.state: "CLOSED", "OPEN" or "HALF_OPEN"
    time,                   \* time.time(), in ticks
    breaker_call,           \* the latest call of the wrapper of CircuitBreaker.__call__, for the claims
    failures_in_a_row,      \* counted failures of the wrapped function since its last success, for the claims
    retry_config,           \* with_error_handling: max_attempts of the RetryConfig, or "None"
    fallback_result,        \* with_error_handling: fallback_result
    attempt,                \* with_error_handling wrapper: the loop variable
    last_exception,         \* with_error_handling wrapper: last_exception
    invocations,            \* with_error_handling wrapper: what each call of func did, in order
    wrapper_result,         \* with_error_handling wrapper: "running", or how the wrapper ended
    max_size_mb,            \* MemoryCache.max_size_mb
    cache,                  \* MemoryCache.cache: key -> value
    access_times,           \* MemoryCache.access_times: key -> timestamp
    sizes,                  \* MemoryCache.sizes: key -> size in MB
    timestamp,              \* the latest pd.Timestamp.now()
    evictions               \* MemoryCache._evict_lru: key and access time of each evicted entry, and
                            \* the access times it was chosen from, for the claims

vars == <<pc, mine_load, solar_power, wind_power, battery_capacity_mwh, battery_power_mw,
          round_trip_efficiency, validation_errors, battery_capacity_kwh, battery_power_kw,
          battery_soc_kwh, soc_is_np, results, raised, returned,
          initial_soc, first_run, hour, flows, hours,
          columns, added_columns, links, chart,
          tasks, running_tasks, thread, cancel_true,
          failure_threshold, recovery_timeout, expected_exception, failure_count,
          last_failure_time, state, time, breaker_call, failures_in_a_row,
          retry_config, fallback_result, attempt, last_exception, invocations,
          wrapper_result,
          max_size_mb, cache, access_times, sizes, timestamp, evictions>>

locals == <<battery_capacity_kwh, battery_power_kw, battery_soc_kwh, soc_is_np, results>>

inputs == <<mine_load, solar_power, wind_power, battery_capacity_mwh, battery_power_mw,
            round_trip_efficiency>>

\* the state of create_sankey_chart
sankey == <<hour, flows, hours, columns, added_columns, links, chart>>

\* the state of the task manager (modules/async_processor.py)
manager == <<tasks, running_tasks, thread, cancel_true>>

\* the state of a CircuitBreaker (modules/error_handler.py)
breaker == <<failure_threshold, recovery_timeout, expected_exception, failure_count,
             last_failure_time, state, time, breaker_call, failures_in_a_row>>

\* the state of a function decorated by with_error_handling
\* (modules/error_handler.py)
handler == <<retry_config, fallback_result, attempt, last_exception, invocations,
             wrapper_result>>

\* the state of a MemoryCache (modules/memory_optimizer.py)
memory_cache == <<max_size_mb, cache, access_times, sizes, timestamp, evictions>>

\* the services around the simulation
services == <<manager, breaker, handler, memory_cache>>

\* everything outside one call of run_simulation
outside == <<initial_soc, first_run, hour, flows, hours,
             columns, added_columns, links, chart, services>>

\* kwargs.get defaults of run_simulation (the application passes the prices of the sidebar)
grid_purchase_price == FRound(15 * One, 100)
grid_sell_price     == FRound(5 * One, 100)


\* Python's min(a, b, c): the first of the smallest arguments; Idx tells which
PyMin3(a, b, c) ==
    LET m == IF b < a THEN b ELSE a
    IN  IF c < m THEN c ELSE m

PyMin3Idx(a, b, c) ==
    LET m == IF b < a THEN b ELSE a
    IN  IF c < m THEN 3 ELSE IF b < a THEN 2 ELSE 1

\* mutant: the stored energy is left as the previous run left it
InitialSoc_LeftFromPreviousRun(capacity_kwh) == battery_soc_kwh

\* line 307: the stored energy a run starts with, half of the capacity
InitialSoc(capacity_kwh) == FMul(capacity_kwh, One \div 2)

\* lines 316-320: aggregate generation and net load
RenewableGeneration(solar_kw, wind_kw) == FAdd(solar_kw, wind_kw)

NetLoad(load_kw, renewable_generation_kw) == FSub(load_kw, renewable_generation_kw)

\* mutant: the power limit is left out of the discharge
MaxDischarge_NoPowerLimit(soc, net_load_kw) == PyMin3(soc, soc, net_load_kw)

\* lines 331-335: the discharge of a deficit hour
MaxDischarge(soc, net_load_kw) == PyMin3(battery_power_kw, soc, net_load_kw)

\* line 338
SocAfterDischarge(soc, discharge_kw) == FSub(soc, discharge_kw)

\* mutant: the whole net load is bought, the discharge is not deducted
GridBuy_IgnoresDischarge(net_load_kw, discharge_kw) ==
    IF net_load_kw > 0 THEN net_load_kw ELSE 0

\* lines 341-343
GridBuy(net_load_kw, discharge_kw) ==
    LET remaining_deficit == FSub(net_load_kw, discharge_kw)
    IN  IF remaining_deficit > 0 THEN remaining_deficit ELSE 0

\* line 352: the room left in the battery, seen from the charging side
CapacityLimit(soc) == FDiv(FSub(battery_capacity_kwh, soc), round_trip_efficiency)

\* mutant: the room in the battery is multiplied by the efficiency
MaxCharge_TimesEfficiency(soc, excess_power_kw) ==
    PyMin3(battery_power_kw,
           FMul(FSub(battery_capacity_kwh, soc), round_trip_efficiency),
           excess_power_kw)

\* lines 350-354: the charge of a surplus hour.  With a zero efficiency and a
\* numpy soc the capacity term is +inf (the dividend is positive in every
\* reachable state, see InfIsPositive) and drops out of min()
MaxCharge(soc, excess_power_kw) ==
    IF round_trip_efficiency = 0
    THEN PyMin3(battery_power_kw, battery_power_kw, excess_power_kw)
    ELSE PyMin3(battery_power_kw, CapacityLimit(soc), excess_power_kw)

MaxChargeIdx(soc, excess_power_kw) ==
    IF round_trip_efficiency = 0
    THEN PyMin3Idx(battery_power_kw, battery_power_kw, excess_power_kw)
    ELSE PyMin3Idx(battery_power_kw, CapacityLimit(soc), excess_power_kw)

\* mutant: the charge is credited without the efficiency
SocAfterCharge_NoEfficiency(soc, charge_kw) == FAdd(soc, charge_kw)

\* line 357
SocAfterCharge(soc, charge_kw) == FAdd(soc, FMul(charge_kw, round_trip_efficiency))

\* lines 360-362
GridSell(excess_power_kw, charge_kw) ==
    LET remaining_excess == FSub(excess_power_kw, charge_kw)
    IN  IF remaining_excess > 0 THEN remaining_excess ELSE 0

\* mutant: the discharge is computed outside the branch
BatteryDischarge_Unconditional(deficit, max_discharge) == max_discharge

\* lines 323-326 with 337, 343, 356, 362: each flow is set in one branch of
\* "if net_load_kw > 0" and keeps its initial 0 in the other
BatteryDischarge(deficit, max_discharge) == IF deficit THEN max_discharge ELSE 0
BatteryCharge(deficit, max_charge)       == IF deficit THEN 0 ELSE max_charge
GridBuyFlow(deficit, buy_kw)             == IF deficit THEN buy_kw ELSE 0
GridSellFlow(deficit, sell_kw)           == IF deficit THEN 0 ELSE sell_kw

\* lines 365-366
GridCost(grid_buy_kw)     == FDivInt(FMul(grid_buy_kw, grid_purchase_price), 1000)
GridRevenue(grid_sell_kw) == FDivInt(FMul(grid_sell_kw, grid_sell_price), 1000)

\* line 369 (the capacity is not zero)
SocPercent(soc) == FMulInt(FDiv(soc, battery_capacity_kwh), 100)

\* One iteration of the hourly loop of run_simulation, from the running
\* battery_soc_kwh (soc, and socNp: whether it is a numpy scalar) and the
\* three values read from the series.  The series values are numpy float64,
\* the configuration values are Python floats: Python raises
\* ZeroDivisionError on a zero Python divisor only when the dividend is a
\* Python float; a numpy dividend gives inf instead.
\* Result: the fields of hour_result, the new soc and its type, and the
\* exception raised inside the iteration ("none" when it completes).
HourStep(soc, socNp, load_kw, solar_kw, wind_kw) ==
    LET renewable_generation_kw == RenewableGeneration(solar_kw, wind_kw)
        net_load_kw     == NetLoad(load_kw, renewable_generation_kw)
        deficit         == net_load_kw > 0
        \* ---- deficit branch
        max_discharge   == MaxDischarge(soc, net_load_kw)
        disIdx          == PyMin3Idx(battery_power_kw, soc, net_load_kw)
        disNp           == disIdx = 3 \/ (disIdx = 2 /\ socNp)
        \* ---- surplus branch
        excess_power_kw == -net_load_kw
        divZero         == round_trip_efficiency = 0
        max_charge      == MaxCharge(soc, excess_power_kw)
        chIdx           == MaxChargeIdx(soc, excess_power_kw)
        chNp            == chIdx = 3 \/ (chIdx = 2 /\ socNp)
        \* ---- both
        battery_charge_kw    == BatteryCharge(deficit, max_charge)
        battery_discharge_kw == BatteryDischarge(deficit, max_discharge)
        new_soc   == IF deficit THEN SocAfterDischarge(soc, max_discharge)
                     ELSE SocAfterCharge(soc, max_charge)
        new_np    == socNp \/ (IF deficit THEN disNp ELSE chNp)
        grid_buy_kw  == GridBuyFlow(deficit, GridBuy(net_load_kw, max_discharge))
        grid_sell_kw == GridSellFlow(deficit, GridSell(excess_power_kw, max_charge))
        grid_cost_usd    == GridCost(grid_buy_kw)
        grid_revenue_usd == GridRevenue(grid_sell_kw)
        exc == IF ~deficit /\ divZero /\ ~socNp THEN "ZeroDivisionError"
               ELSE IF battery_capacity_kwh = 0 /\ ~new_np THEN "ZeroDivisionError"
               ELSE "none"
    IN  [ mine_load_kw         |-> load_kw,
          solar_power_kw       |-> solar_kw,
          wind_power_kw        |-> wind_kw,
          renewable_total_kw   |-> renewable_generation_kw,
          net_load_kw          |-> net_load_kw,
          battery_charge_kw    |-> battery_charge_kw,
          battery_discharge_kw |-> battery_discharge_kw,
          battery_soc_kwh      |-> new_soc,
          battery_soc_percent  |-> IF battery_capacity_kwh = 0 THEN 0 ELSE SocPercent(new_soc),
          grid_buy_kw          |-> grid_buy_kw,
          grid_sell_kw         |-> grid_sell_kw,
          grid_cost_usd        |-> grid_cost_usd,
          grid_revenue_usd     |-> grid_revenue_usd,
          net_grid_cost_usd    |-> FSub(grid_cost_usd, grid_revenue_usd),
          soc_np               |-> new_np,
          soc_at_exit          |-> IF ~deficit /\ divZero /\ ~socNp THEN soc ELSE new_soc,
          exc                  |-> exc ]

HourFields == {"mine_load_kw", "solar_power_kw", "wind_power_kw", "renewable_total_kw",
               "net_load_kw", "battery_charge_kw", "battery_discharge_kw",
               "battery_soc_kwh", "battery_soc_percent", "grid_buy_kw", "grid_sell_kw",
               "grid_cost_usd", "grid_revenue_usd", "net_grid_cost_usd"}

\* the dict appended to results: the hour_result keys only
HourResult(h) == [f \in HourFields |-> h[f]]

\* no earlier call
NoRun == [done |-> FALSE, returned |-> "pending", raised |-> "none", results |-> <<>>]

\* results_analyzer.py lines 204-212: the accumulators start at 0
ZeroFlows == [solar_to_load |-> 0, solar_to_battery |-> 0, solar_to_grid |-> 0,
              wind_to_load |-> 0, wind_to_battery |-> 0, wind_to_grid |-> 0,
              grid_to_load |-> 0, battery_to_load |-> 0]

\* no column has been written into the frame
NoColumns == [f \in {} |-> <<>>]

\* no task has been submitted
NoTasks == [id \in {} |-> <<>>]

ManagerAtRest ==
    /\ tasks = NoTasks
    /\ running_tasks = {}
    /\ thread = NoTasks
    /\ cancel_true = {}

\* the exceptions a wrapped function can raise: ConnectionResetError is a
\* subclass of ConnectionError, the others are direct subclasses of Exception
\* (OSError aside)
ExceptionTypes == {"ConnectionError", "ConnectionResetError", "ValueError", "KeyError"}

\* the exceptions "except cls" catches: cls and its subclasses
Caught(cls) ==
    CASE cls = "Exception" -> ExceptionTypes
      [] cls = "ConnectionError" -> {"ConnectionError", "ConnectionResetError"}
      [] OTHER -> {cls}

\* no call of the wrapper yet
NoCall == [invoked |-> FALSE, outcome |-> "none", state_before |-> "CLOSED",
           waited |-> FALSE]

\* CircuitBreaker.__init__ lines 260-270 with the default arguments
BreakerAtRest ==
    /\ failure_threshold = 5
    /\ recovery_timeout = 60
    /\ expected_exception = "Exception"
    /\ failure_count = 0
    /\ last_failure_time = "None"
    /\ state = "CLOSED"
    /\ time = 0
    /\ breaker_call = NoCall
    /\ failures_in_a_row = 0

\* retry_config: None, or RetryConfig(max_attempts=n)
NoRetryConfig == <<>>
RetryConfig(n) == <<n>>

\* the wrapper has not been called
NotCalled == [kind |-> "not called", value |-> "None"]

\* with_error_handling with the default arguments, wrapper not called
HandlerAtRest ==
    /\ retry_config = NoRetryConfig
    /\ fallback_result = "None"
    /\ attempt = 0
    /\ last_exception = "None"
    /\ invocations = <<>>
    /\ wrapper_result = NotCalled

\* no entry
NoEntries == [key \in {} |-> 0]

\* MemoryCache.__init__ lines 249-253 with the default argument
CacheAtRest ==
    /\ max_size_mb = 100
    /\ cache = NoEntries
    /\ access_times = NoEntries
    /\ sizes = NoEntries
    /\ timestamp = 0
    /\ evictions = <<>>

\* the services are constructed and have not been used
ServicesAtRest ==
    /\ ManagerAtRest
    /\ BreakerAtRest
    /\ HandlerAtRest
    /\ CacheAtRest

\* ------------------------------------------------------------------ actions
Init ==
    /\ pc = "idle"
    /\ mine_load   \in SeqsUpTo(LoadVals, MaxLen)
    /\ solar_power \in SeqsUpTo(SolarVals, MaxLen)
    /\ wind_power  \in SeqsUpTo(WindVals, MaxLen)
    /\ \E c \in StorageConfigs :
           /\ battery_capacity_mwh = c[1]
           /\ battery_power_mw = c[2]
           /\ round_trip_efficiency = c[3]
    /\ validation_errors = {}
    /\ battery_capacity_kwh = 0
    /\ battery_power_kw = 0
    /\ battery_soc_kwh = 0
    /\ soc_is_np = FALSE
    /\ results = <<>>
    /\ raised = "none"
    /\ returned = "pending"
    /\ initial_soc = One \div 2
    /\ first_run = NoRun
    /\ hour = 0
    /\ flows = ZeroFlows
    /\ hours = <<>>
    /\ columns = HourFields
    /\ added_columns = NoColumns
    /\ links = <<>>
    /\ chart = "none"
    /\ ServicesAtRest

\* validate_inputs, the checks on the storage parameters; the application
\* stops (st.stop()) when the errors list is not empty
ValidateInputs ==
    /\ pc = "idle"
    /\ validation_errors' =
           (IF battery_capacity_mwh < 0 THEN {"battery_capacity"} ELSE {})
      \cup (IF battery_power_mw < 0 THEN {"battery_power"} ELSE {})
      \cup (IF round_trip_efficiency > One \/ round_trip_efficiency < 0
            THEN {"battery_efficiency"} ELSE {})
    /\ pc' = IF validation_errors' = {} THEN "validated" ELSE "rejected"
    /\ UNCHANGED <<inputs, locals, raised, returned, outside>>

\* run_simulation up to the loop: called by the application after a clean
\* validation, or directly by any other caller
RunSimulationBegin ==
    /\ pc \in {"idle", "validated"}
    /\ pc' = "loop"
    /\ battery_capacity_kwh' = FMulInt(battery_capacity_mwh, 1000)
    /\ battery_power_kw' = FMulInt(battery_power_mw, 1000)
    /\ results' = <<>>
    /\ battery_soc_kwh' = InitialSoc(battery_capacity_kwh')
    /\ soc_is_np' = FALSE
    /\ UNCHANGED <<inputs, validation_errors, raised, returned, outside>>

\* one iteration of "for i in range(len(mine_load))"; an exception leaves
\* the loop for the except clause, which returns None
LoopIteration ==
    /\ pc = "loop"
    /\ Len(results) < Len(mine_load)
    /\ LET i == Len(results) + 1
       IN  IF i > Len(solar_power) \/ i > Len(wind_power)
           THEN /\ pc' = "failed"
                /\ raised' = "IndexError"
                /\ returned' = "None"
                /\ UNCHANGED <<battery_soc_kwh, soc_is_np, results>>
           ELSE LET h == HourStep(battery_soc_kwh, soc_is_np,
                                  mine_load[i], solar_power[i], wind_power[i])
                IN  IF h.exc # "none"
                    THEN /\ pc' = "failed"
                         /\ raised' = h.exc
                         /\ returned' = "None"
                         /\ battery_soc_kwh' = h.soc_at_exit
                         /\ UNCHANGED <<soc_is_np, results>>
                    ELSE /\ results' = Append(results, HourResult(h))
                         /\ battery_soc_kwh' = h.battery_soc_kwh
                         /\ soc_is_np' = h.soc_np
                         /\ UNCHANGED <<pc, raised, returned>>
    /\ UNCHANGED <<inputs, validation_errors, battery_capacity_kwh, battery_power_kw, outside>>

\* after the loop: pd.DataFrame(results).set_index('timestamp'); an empty
\* results list gives a frame without columns and set_index raises KeyError
LoopExit ==
    /\ pc = "loop"
    /\ Len(results) = Len(mine_load)
    /\ IF results = <<>>
       THEN /\ pc' = "failed"
            /\ raised' = "KeyError"
            /\ returned' = "None"
       ELSE /\ pc' = "returned"
            /\ returned' = "DataFrame"
            /\ UNCHANGED raised
    /\ UNCHANGED <<inputs, validation_errors, locals, outside>>

Next ==
    \/ ValidateInputs
    \/ RunSimulationBegin
    \/ LoopIteration
    \/ LoopExit

Spec == Init /\ [][Next]_vars

\* ------------------------------------------------- calling the engine twice
\* runs whose arguments are used for a second call: <<capacity MWh, power MW,
\* efficiency, configured initial fraction>>
RerunConfigs ==
    { <<7 * One, 8 * One, Eta75, One \div 2>>,
      <<7 * One, One, One, One \div 4>>,
      <<7 * One, 8 * One, 0, One \div 2>> }

RerunInit ==
    /\ pc = "idle"
    /\ mine_load   \in SeqsUpTo(LoadVals, MaxLen)
    /\ solar_power \in SeqsUpTo(SolarVals, MaxLen)
    /\ wind_power  \in SeqsUpTo(WindVals, MaxLen)
    /\ \E c \in RerunConfigs :
           /\ battery_capacity_mwh = c[1]
           /\ battery_power_mw = c[2]
           /\ round_trip_efficiency = c[3]
           /\ initial_soc = c[4]
    /\ validation_errors = {}
    /\ battery_capacity_kwh = 0
    /\ battery_power_kw = 0
    /\ battery_soc_kwh = 0
    /\ soc_is_np = FALSE
    /\ results = <<>>
    /\ raised = "none"
    /\ returned = "pending"
    /\ first_run = NoRun
    /\ hour = 0
    /\ flows = ZeroFlows
    /\ hours = <<>>
    /\ columns = HourFields
    /\ added_columns = NoColumns
    /\ links = <<>>
    /\ chart = "none"
    /\ ServicesAtRest

\* what the finished call handed back (None has no ledger)
Outcome ==
    [done |-> TRUE, returned |-> returned, raised |-> raised,
     results |-> IF returned = "DataFrame" THEN results ELSE <<>>]

\* a second call with the same arguments whose body is executed again (the
\* st.cache_data entry is gone: cache cleared, or another process): lines
\* 293-307 run as in the first call
RunAgain ==
    /\ pc \in {"returned", "failed"}
    /\ ~first_run.done
    /\ first_run' = Outcome
    /\ pc' = "loop"
    /\ battery_capacity_kwh' = FMulInt(battery_capacity_mwh, 1000)
    /\ battery_power_kw' = FMulInt(battery_power_mw, 1000)
    /\ results' = <<>>
    /\ battery_soc_kwh' = InitialSoc(battery_capacity_kwh')
    /\ soc_is_np' = FALSE
    /\ raised' = "none"
    /\ returned' = "pending"
    /\ UNCHANGED <<inputs, validation_errors, initial_soc, sankey, services>>

\* a second call with the same arguments answered by st.cache_data (line
\* 276): the stored return value is handed back, the body does not run
RunAgainCached ==
    /\ pc \in {"returned", "failed"}
    /\ ~first_run.done
    /\ first_run' = Outcome
    /\ UNCHANGED <<pc, inputs, validation_errors, locals, raised, returned,
                   initial_soc, sankey, services>>

RerunNext ==
    \/ RunSimulationBegin
    \/ LoopIteration
    \/ LoopExit
    \/ RunAgain
    \/ RunAgainCached

RerunSpec == RerunInit /\ [][RerunNext]_vars

\* ------------------------------------------------------ the flow attributor
\* results_analyzer.py create_sankey_chart, given the ledger that
\* run_simulation returned.  A row r is a record of the ledger.

\* Python's min(a, b)
PyMin2(a, b) == IF b < a THEN b ELSE a

\* line 226
RenewableTotal(solar_kw, wind_kw) == FAdd(solar_kw, wind_kw)

\* mutant: the whole generation is attributed to the load
RenewableToLoad_IgnoresDemand(renewable_total, load_kw) == renewable_total

\* line 231 (inside "if renewable_total > 0")
RenewableToLoad(renewable_total, load_kw) == PyMin2(renewable_total, load_kw)

\* mutant: a source is given the share of the other source
SourceRatio_OfTheOtherSource(source_kw, renewable_total) ==
    FDiv(FSub(renewable_total, source_kw), renewable_total)

\* lines 235-236 (inside "if renewable_total > 0"): solar_ratio, wind_ratio
SourceRatio(source_kw, renewable_total) == FDiv(source_kw, renewable_total)

\* line 242
RemainingRenewable(renewable_total, renewable_to_load) ==
    FSub(renewable_total, renewable_to_load)

\* lines 244-247: 0 stands for "not assigned, nothing added"
ChargeFromRenewable(battery_charge_kw, remaining_renewable) ==
    IF remaining_renewable > 0 /\ battery_charge_kw > 0
    THEN PyMin2(battery_charge_kw, remaining_renewable)
    ELSE 0

\* mutant: the charge attribution is not taken off the remainder
RemainingAfterCharge_NotReduced(battery_charge_kw, remaining_renewable) ==
    remaining_renewable

\* line 250: remaining_renewable when the export part is reached
RemainingAfterCharge(battery_charge_kw, remaining_renewable) ==
    IF remaining_renewable > 0 /\ battery_charge_kw > 0
    THEN FSub(remaining_renewable,
              ChargeFromRenewable(battery_charge_kw, remaining_renewable))
    ELSE remaining_renewable

\* lines 253-254; remaining_renewable is the value of line 242, left the
\* value when the export part is reached
SellFromRenewable(grid_sell_kw, remaining_renewable, left) ==
    IF remaining_renewable > 0 /\ left > 0 /\ grid_sell_kw > 0
    THEN PyMin2(grid_sell_kw, left)
    ELSE 0

\* mutant: the grid import is counted twice in the load attribution
GridToLoad_CountedTwice(grid_buy_kw) == FAdd(grid_buy_kw, grid_buy_kw)

\* line 259: the whole import goes to the load
GridToLoad(grid_buy_kw) == grid_buy_kw

\* mutant: half of the discharge is credited to the load
BatteryToLoad_Halved(battery_discharge_kw) == FDivInt(battery_discharge_kw, 2)

\* line 262: the whole discharge goes to the load
BatteryToLoad(battery_discharge_kw) == battery_discharge_kw

\* the locals of one iteration of the loop at lines 215-262 for the ledger
\* row r, and what the iteration adds to each accumulator (without
\* generation the renewable part is skipped: nothing is computed and
\* nothing is added)
HourAttribution(r) ==
    LET renewable_total   == RenewableTotal(r.solar_power_kw, r.wind_power_kw)
        generating        == renewable_total > 0
        renewable_to_load == IF generating
                             THEN RenewableToLoad(renewable_total, r.mine_load_kw)
                             ELSE 0
        solar_ratio == IF generating THEN SourceRatio(r.solar_power_kw, renewable_total)
                       ELSE 0
        wind_ratio  == IF generating THEN SourceRatio(r.wind_power_kw, renewable_total)
                       ELSE 0
        remaining_renewable == IF generating
                               THEN RemainingRenewable(renewable_total, renewable_to_load)
                               ELSE 0
        charge_from_renewable ==
            ChargeFromRenewable(r.battery_charge_kw, remaining_renewable)
        remaining_after_charge ==
            RemainingAfterCharge(r.battery_charge_kw, remaining_renewable)
        sell_from_renewable ==
            SellFromRenewable(r.grid_sell_kw, remaining_renewable, remaining_after_charge)
    IN  [ renewable_total        |-> renewable_total,
          renewable_to_load      |-> renewable_to_load,
          solar_ratio            |-> solar_ratio,
          wind_ratio             |-> wind_ratio,
          remaining_renewable    |-> remaining_renewable,
          charge_from_renewable  |-> charge_from_renewable,
          remaining_after_charge |-> remaining_after_charge,
          sell_from_renewable    |-> sell_from_renewable,
          solar_to_load    |-> FMul(renewable_to_load, solar_ratio),
          wind_to_load     |-> FMul(renewable_to_load, wind_ratio),
          solar_to_battery |-> FMul(charge_from_renewable, solar_ratio),
          wind_to_battery  |-> FMul(charge_from_renewable, wind_ratio),
          solar_to_grid    |-> FMul(sell_from_renewable, solar_ratio),
          wind_to_grid     |-> FMul(sell_from_renewable, wind_ratio),
          grid_to_load     |-> GridToLoad(r.grid_buy_kw),
          battery_to_load  |-> BatteryToLoad(r.battery_discharge_kw) ]

\* input domains of the attributed runs: demand below, between and above
\* the generation of an hour, two sources of different size
SankeyLoadVals == {0, 3 * K, 8 * K}
SankeyWindVals == {0, 2 * K}
SankeyConfigs  == {7 * One} \X {One, 8 * One} \X {Eta75, One}

SeqsOfLen(S, n) == {q \in SeqsUpTo(S, n) : Len(q) = n}

\* the columns create_sankey_chart reads (lines 193-199 and 217-223)
SankeyColumns == {"solar_power_kw", "wind_power_kw", "grid_buy_kw", "mine_load_kw",
                  "battery_charge_kw", "grid_sell_kw", "battery_discharge_kw"}

\* either the engine is about to be called with series of one common length,
\* or create_sankey_chart is handed a frame of zero records: one that has
\* the ledger's columns, or pd.DataFrame([]), which has none
SankeyInit ==
    /\ \/ /\ pc = "idle"
          /\ returned = "pending"
          /\ columns = HourFields
          /\ \E n \in 0..MaxLen :
                 /\ mine_load   \in SeqsOfLen(SankeyLoadVals, n)
                 /\ solar_power \in SeqsOfLen(SolarVals, n)
                 /\ wind_power  \in SeqsOfLen(SankeyWindVals, n)
       \/ /\ pc = "returned"
          /\ returned = "DataFrame"
          /\ columns \in {HourFields, {}}
          /\ mine_load = <<>> /\ solar_power = <<>> /\ wind_power = <<>>
    /\ \E c \in SankeyConfigs :
           /\ battery_capacity_mwh = c[1]
           /\ battery_power_mw = c[2]
           /\ round_trip_efficiency = c[3]
    /\ validation_errors = {}
    /\ battery_capacity_kwh = 0
    /\ battery_power_kw = 0
    /\ battery_soc_kwh = 0
    /\ soc_is_np = FALSE
    /\ results = <<>>
    /\ raised = "none"
    /\ initial_soc = One \div 2
    /\ first_run = NoRun
    /\ hour = 0
    /\ flows = ZeroFlows
    /\ hours = <<>>
    /\ added_columns = NoColumns
    /\ links = <<>>
    /\ chart = "none"
    /\ ServicesAtRest

\* create_sankey_chart up to the loop (lines 160-212), called with the
\* ledger run_simulation returned; the column sums of lines 193-199 find
\* their columns
CreateSankeyChartBegin ==
    /\ pc = "returned"
    /\ returned = "DataFrame"
    /\ SankeyColumns \subseteq columns
    /\ pc' = "attributing"
    /\ hour' = 0
    /\ flows' = ZeroFlows
    /\ hours' = <<>>
    /\ UNCHANGED <<inputs, validation_errors, locals, raised, returned,
                   initial_soc, first_run, columns, added_columns, links, chart,
                   services>>

\* line 193 with a frame that lacks the column: KeyError, caught at line
\* 365; st.error, and the figure without data of lines 368-379 is returned
CreateSankeyChartFails ==
    /\ pc = "returned"
    /\ returned = "DataFrame"
    /\ ~(SankeyColumns \subseteq columns)
    /\ pc' = "charted"
    /\ chart' = "error"
    /\ UNCHANGED <<inputs, validation_errors, locals, raised, returned,
                   initial_soc, first_run, hour, flows, hours,
                   columns, added_columns, links, services>>

\* one iteration of "for i in range(len(simulation_results_df))", lines
\* 215-262
AttributeHour ==
    /\ pc = "attributing"
    /\ hour < Len(results)
    /\ LET h == HourAttribution(results[hour + 1])
       IN  /\ flows' = [solar_to_load |-> FAdd(flows.solar_to_load, h.solar_to_load),
                        solar_to_battery |-> FAdd(flows.solar_to_battery, h.solar_to_battery),
                        solar_to_grid |-> FAdd(flows.solar_to_grid, h.solar_to_grid),
                        wind_to_load |-> FAdd(flows.wind_to_load, h.wind_to_load),
                        wind_to_battery |-> FAdd(flows.wind_to_battery, h.wind_to_battery),
                        wind_to_grid |-> FAdd(flows.wind_to_grid, h.wind_to_grid),
                        grid_to_load |-> FAdd(flows.grid_to_load, h.grid_to_load),
                        battery_to_load |-> FAdd(flows.battery_to_load, h.battery_to_load)]
           /\ hours' = Append(hours, h)
    /\ hour' = hour + 1
    /\ UNCHANGED <<pc, inputs, validation_errors, locals, raised, returned,
                   initial_soc, first_run, columns, added_columns, links, chart,
                   services>>

\* Quantities in GWh.  float64 has exponent range to spare below 1.0; the
\* GWh values of the model are therefore counted in quanta GWhGrid times
\* finer than the others, so that a division by 10^6 is rounded to
\* Precision bits as it is in the program.
GWhGrid == 2 ^ 10

\* x / 1_000_000 (lines 193-199, 265-272): kWh to GWh
ToGWh(x) == FRound(x * GWhGrid, 1000000)

\* the literal 0.01 of lines 280-322, a number in GWh
LinkThreshold == FRound(One * GWhGrid, 100)

\* "if v > 0.01: source.append(s); target.append(t); value.append(v)"
Link(s, t, v) == IF v > LinkThreshold THEN << <<s, t, v>> >> ELSE <<>>

\* the node numbers of the labels list (lines 173-180, and 316)
SolarNode     == 0
WindNode      == 1
GridBuyNode   == 2
LoadNode      == 3
ChargeNode    == 4
GridSellNode  == 5
DischargeNode == 6

\* lines 199 and 313-317: the link from the charge node to the discharge
\* node carries the ledger's total discharge
DischargeLink(total_battery_discharge_gwh) ==
    Link(ChargeNode, DischargeNode, total_battery_discharge_gwh)

\* lines 274-333 for the converted accumulators f
SankeyLinks(f, total_battery_discharge_gwh) ==
    Link(SolarNode, LoadNode, f.solar_to_load)
    \o Link(SolarNode, ChargeNode, f.solar_to_battery)
    \o Link(SolarNode, GridSellNode, f.solar_to_grid)
    \o Link(WindNode, LoadNode, f.wind_to_load)
    \o Link(WindNode, ChargeNode, f.wind_to_battery)
    \o Link(WindNode, GridSellNode, f.wind_to_grid)
    \o Link(GridBuyNode, LoadNode, f.grid_to_load)
    \o (IF f.battery_to_load > LinkThreshold
        THEN DischargeLink(total_battery_discharge_gwh)
             \o << <<DischargeNode, LoadNode, f.battery_to_load>> >>
        ELSE <<>>)

\* the sum of a ledger column, lines 193-199 before the division (for the
\* short ledgers of the model numpy adds from left to right)
RECURSIVE ColumnSum(_, _)
ColumnSum(column, n) ==
    IF n = 0 THEN 0 ELSE FAdd(ColumnSum(column, n - 1), results[n][column])

\* after the loop, lines 264-363: every accumulator is converted to GWh,
\* the links above the threshold are collected and the figure is built
CreateSankeyChartEnd ==
    /\ pc = "attributing"
    /\ hour = Len(results)
    /\ flows' = [solar_to_load |-> ToGWh(flows.solar_to_load),
                 solar_to_battery |-> ToGWh(flows.solar_to_battery),
                 solar_to_grid |-> ToGWh(flows.solar_to_grid),
                 wind_to_load |-> ToGWh(flows.wind_to_load),
                 wind_to_battery |-> ToGWh(flows.wind_to_battery),
                 wind_to_grid |-> ToGWh(flows.wind_to_grid),
                 grid_to_load |-> ToGWh(flows.grid_to_load),
                 battery_to_load |-> ToGWh(flows.battery_to_load)]
    /\ links' = SankeyLinks(flows',
                            ToGWh(ColumnSum("battery_discharge_kw", Len(results))))
    /\ chart' = "sankey"
    /\ pc' = "charted"
    /\ UNCHANGED <<inputs, validation_errors, locals, raised, returned,
                   initial_soc, first_run, hour, hours, columns, added_columns,
                   services>>

\* advanced_visualization.py validate_and_fix_data lines 15-51, which every
\* chart helper of that module runs on the ledger it is given (lines 57, 130,
\* 275, 352, 422)
required_fields == {"mine_load_kw", "solar_power_kw", "wind_power_kw",
                    "renewable_total_kw", "grid_buy_kw", "grid_sell_kw",
                    "battery_charge_kw", "battery_discharge_kw",
                    "grid_cost_usd", "grid_revenue_usd"}

\* lines 27-37: a missing required column is filled with 0.0; lines 40-45:
\* battery_power_kw = discharge - charge is added unless it is there.  Both
\* are item assignments on the caller's DataFrame.
ValidateAndFixData ==
    /\ pc \in {"returned", "charted"}
    /\ returned = "DataFrame"
    /\ LET missing == required_fields \ columns
           zeros   == [k \in 1..Len(results) |-> 0]
           power   == [k \in 1..Len(results) |->
                          FSub(results[k].battery_discharge_kw,
                               results[k].battery_charge_kw)]
           written == missing \cup ({"battery_power_kw"} \ columns)
       IN  /\ columns' = columns \cup written
           /\ added_columns' =
                  [f \in (DOMAIN added_columns) \cup written |->
                      IF f \in DOMAIN added_columns THEN added_columns[f]
                      ELSE IF f \in missing THEN zeros
                      ELSE power]
    /\ UNCHANGED <<pc, inputs, validation_errors, locals, raised, returned,
                   initial_soc, first_run, hour, flows, hours, links, chart,
                   services>>

SankeyNext ==
    \/ RunSimulationBegin
    \/ LoopIteration
    \/ LoopExit
    \/ CreateSankeyChartBegin
    \/ CreateSankeyChartFails
    \/ AttributeHour
    \/ CreateSankeyChartEnd
    \/ ValidateAndFixData

SankeySpec == SankeyInit /\ [][SankeyNext]_vars

\* ---------------------------------------------------------- the task manager
\* modules/async_processor.py AsyncTaskManager.  A task id is the uuid4 of
\* submit_task; the caller thread and one worker thread per task take steps.

\* the simulation variables, which the services do not touch
simulation == <<pc, inputs, validation_errors, locals, raised, returned,
                initial_soc, first_run, hour, flows, hours,
                columns, added_columns, links, chart>>

\* no simulation has been asked for
SimulationAtRest ==
    /\ pc = "idle"
    /\ mine_load = <<>> /\ solar_power = <<>> /\ wind_power = <<>>
    /\ battery_capacity_mwh = 7 * One
    /\ battery_power_mw = One
    /\ round_trip_efficiency = One
    /\ validation_errors = {}
    /\ battery_capacity_kwh = 0
    /\ battery_power_kw = 0
    /\ battery_soc_kwh = 0
    /\ soc_is_np = FALSE
    /\ results = <<>>
    /\ raised = "none"
    /\ returned = "pending"
    /\ initial_soc = One \div 2
    /\ first_run = NoRun
    /\ hour = 0
    /\ flows = ZeroFlows
    /\ hours = <<>>
    /\ columns = HourFields
    /\ added_columns = NoColumns
    /\ links = <<>>
    /\ chart = "none"

\* the services other than the task manager
BesidesManager == <<breaker, handler, memory_cache>>

\* bound: the number of tasks submitted
MaxTasks == 2
TaskIds == 1..MaxTasks

\* what a task function can hand back, and the progress (in percent) that
\* ProgressTracker.update_progress can report while it runs
FuncValues == {"value"}
ProgressVals == {50}

\* lines 62-66: TaskResult(task_id, status=PENDING, start_time=now); the
\* other fields have their dataclass defaults (lines 33-38)
NewTask ==
    [status |-> "pending", result |-> "None", error |-> "None",
     progress |-> 0, end_time |-> "None"]

\* submit_task, lines 48-80: the record is stored, the thread is registered
\* in running_tasks and then started
SubmitTask(id) ==
    /\ id \notin DOMAIN thread
    /\ tasks' = [t \in (DOMAIN tasks) \cup {id} |-> IF t = id THEN NewTask ELSE tasks[t]]
    /\ running_tasks' = running_tasks \cup {id}
    /\ thread' = [t \in (DOMAIN thread) \cup {id} |->
                     IF t = id THEN [at |-> "started", got |-> "None"] ELSE thread[t]]
    /\ UNCHANGED <<cancel_true, simulation, BesidesManager>>

\* _execute_task lines 84-88: under the lock, the status becomes RUNNING if
\* the task is still in tasks
ExecuteTaskStart(id) ==
    /\ id \in DOMAIN thread
    /\ thread[id].at = "started"
    /\ tasks' = IF id \in DOMAIN tasks
                THEN [tasks EXCEPT ![id].status = "running"]
                ELSE tasks
    /\ thread' = [thread EXCEPT ![id].at = "calling"]
    /\ UNCHANGED <<running_tasks, cancel_true, simulation, BesidesManager>>

\* ProgressTracker.update_progress lines 185-195, called by the task
\* function while it runs
UpdateProgress(id) ==
    /\ id \in DOMAIN thread
    /\ thread[id].at = "calling"
    /\ id \in DOMAIN tasks
    /\ \E p \in ProgressVals : tasks' = [tasks EXCEPT ![id].progress = p]
    /\ UNCHANGED <<running_tasks, thread, cancel_true, simulation, BesidesManager>>

\* line 93: func(*args, **kwargs) returns
FuncReturns(id) ==
    /\ id \in DOMAIN thread
    /\ thread[id].at = "calling"
    /\ \E v \in FuncValues : thread' = [thread EXCEPT ![id] = [at |-> "returned", got |-> v]]
    /\ UNCHANGED <<tasks, running_tasks, cancel_true, simulation, BesidesManager>>

\* line 93: func(*args, **kwargs) raises an Exception
FuncRaises(id) ==
    /\ id \in DOMAIN thread
    /\ thread[id].at = "calling"
    /\ thread' = [thread EXCEPT ![id] = [at |-> "raised", got |-> "error text"]]
    /\ UNCHANGED <<tasks, running_tasks, cancel_true, simulation, BesidesManager>>

\* lines 96-105: under the lock, COMPLETED with the result and progress 1.0
ExecuteTaskCompleted(id) ==
    /\ id \in DOMAIN thread
    /\ thread[id].at = "returned"
    /\ tasks' = IF id \in DOMAIN tasks
                THEN [tasks EXCEPT ![id] = [status |-> "completed",
                                            result |-> thread[id].got,
                                            error |-> @.error,
                                            progress |-> 100,
                                            end_time |-> "set"]]
                ELSE tasks
    /\ thread' = [thread EXCEPT ![id].at = "finally"]
    /\ UNCHANGED <<running_tasks, cancel_true, simulation, BesidesManager>>

\* lines 109-116: under the lock, FAILED with str(e)
ExecuteTaskFailed(id) ==
    /\ id \in DOMAIN thread
    /\ thread[id].at = "raised"
    /\ tasks' = IF id \in DOMAIN tasks
                THEN [tasks EXCEPT ![id].status = "failed",
                                   ![id].error = thread[id].got,
                                   ![id].end_time = "set"]
                ELSE tasks
    /\ thread' = [thread EXCEPT ![id].at = "finally"]
    /\ UNCHANGED <<running_tasks, cancel_true, simulation, BesidesManager>>

\* mutant: the thread stays registered
RunningTasksAfter_StillRegistered(id) == running_tasks

\* lines 118-121: del self.running_tasks[task_id]
RunningTasksAfter(id) == running_tasks \ {id}

\* the finally clause of _execute_task; the thread ends
ExecuteTaskFinally(id) ==
    /\ id \in DOMAIN thread
    /\ thread[id].at = "finally"
    /\ running_tasks' = RunningTasksAfter(id)
    /\ thread' = [thread EXCEPT ![id].at = "ended"]
    /\ UNCHANGED <<tasks, cancel_true, simulation, BesidesManager>>

\* cancel_task lines 128-140 returning True: under the lock a PENDING or
\* RUNNING task is marked CANCELLED.  (Otherwise it returns False and
\* changes nothing.)
CancelTask(id) ==
    /\ id \in DOMAIN tasks
    /\ tasks[id].status \in {"pending", "running"}
    /\ tasks' = [tasks EXCEPT ![id].status = "cancelled", ![id].end_time = "set"]
    /\ cancel_true' = cancel_true \cup {id}
    /\ UNCHANGED <<running_tasks, thread, simulation, BesidesManager>>

TerminalStatus == {"completed", "failed", "cancelled"}

\* cleanup_completed_tasks lines 142-158: the finished tasks whose end_time
\* is older than max_age_hours are deleted from tasks (which of them are
\* that old is left open)
CleanupCompletedTasks ==
    /\ \E old \in (SUBSET {id \in DOMAIN tasks : /\ tasks[id].status \in TerminalStatus
                                                 /\ tasks[id].end_time = "set"}) \ {{}} :
           tasks' = [t \in (DOMAIN tasks) \ old |-> tasks[t]]
    /\ UNCHANGED <<running_tasks, thread, cancel_true, simulation, BesidesManager>>

TaskInit == SimulationAtRest /\ ServicesAtRest

TaskNext ==
    \/ \E id \in TaskIds : SubmitTask(id)
    \/ \E id \in TaskIds : ExecuteTaskStart(id)
    \/ \E id \in TaskIds : UpdateProgress(id)
    \/ \E id \in TaskIds : FuncReturns(id)
    \/ \E id \in TaskIds : FuncRaises(id)
    \/ \E id \in TaskIds : ExecuteTaskCompleted(id)
    \/ \E id \in TaskIds : ExecuteTaskFailed(id)
    \/ \E id \in TaskIds : ExecuteTaskFinally(id)
    \/ \E id \in TaskIds : CancelTask(id)
    \/ CleanupCompletedTasks

TaskSpec == TaskInit /\ [][TaskNext]_vars

\* the worker thread of a task is scheduled, and the task function
\* terminates
WorkerStep(id) ==
    \/ ExecuteTaskStart(id)
    \/ FuncReturns(id)
    \/ FuncRaises(id)
    \/ ExecuteTaskCompleted(id)
    \/ ExecuteTaskFailed(id)
    \/ ExecuteTaskFinally(id)

TaskLiveSpec == TaskSpec /\ \A id \in TaskIds : WF_vars(WorkerStep(id))

\* ------------------------------------------------------- circuit breaker
\* the state of the program besides the circuit breaker
BesidesBreaker == <<simulation, manager, handler, memory_cache>>

\* bounds: the largest failure_threshold and recovery_timeout (in clock
\* ticks) a breaker is constructed with, the last tick of the clock and the
\* largest failure_count
MaxThreshold == 2
MaxTimeout == 2
MaxClock == 4
MaxFailures == 4

\* CircuitBreaker.__init__ lines 260-270: the arguments are stored, the
\* breaker is CLOSED with no failure counted
BreakerInit ==
    /\ SimulationAtRest
    /\ ManagerAtRest
    /\ HandlerAtRest
    /\ CacheAtRest
    /\ failure_threshold \in 1..MaxThreshold
    /\ recovery_timeout \in 0..MaxTimeout
    /\ expected_exception \in {"Exception", "ConnectionError"}
    /\ failure_count = 0
    /\ last_failure_time = "None"
    /\ state = "CLOSED"
    /\ time = 0
    /\ breaker_call = NoCall
    /\ failures_in_a_row = 0

\* _should_attempt_reset lines 291-293
ShouldAttemptReset == (time - last_failure_time) >= recovery_timeout

\* lines 275-279: an OPEN breaker stays OPEN and raises, or becomes
\* HALF_OPEN and lets the call through
LetThrough == IF state = "OPEN" THEN ShouldAttemptReset ELSE TRUE
StateAtCall == IF state = "OPEN" THEN "HALF_OPEN" ELSE state

\* what the model remembers of the last call of the wrapper
Call(invoked, outcome) ==
    [invoked |-> invoked, outcome |-> outcome, state_before |-> state,
     waited |-> IF state = "OPEN" THEN ShouldAttemptReset ELSE FALSE]

\* lines 275-279: raise Exception("熔断器开启，服务暂时不可用")
CallBlocked ==
    /\ ~LetThrough
    /\ breaker_call' = Call(FALSE, "blocked")
    /\ UNCHANGED <<failure_threshold, recovery_timeout, expected_exception,
                   failure_count, last_failure_time, state, time,
                   failures_in_a_row, BesidesBreaker>>

\* mutant: a success leaves the count of failures as it is
FailureCountOnSuccess_Kept == failure_count

\* _on_success line 297
FailureCountOnSuccess == 0

\* lines 281-284 and _on_success lines 295-298: func returns
CallSucceeds ==
    /\ LetThrough
    /\ failure_count' = FailureCountOnSuccess
    /\ state' = "CLOSED"
    /\ breaker_call' = Call(TRUE, "returned")
    /\ failures_in_a_row' = 0
    /\ UNCHANGED <<failure_threshold, recovery_timeout, expected_exception,
                   last_failure_time, time, BesidesBreaker>>

\* lines 286-288 and _on_failure lines 300-307: func raises an exception
\* that "except self.expected_exception" catches
CallFails ==
    /\ LetThrough
    /\ failure_count < MaxFailures
    /\ \E e \in Caught(expected_exception) :
           breaker_call' = Call(TRUE, "failed")
    /\ failure_count' = failure_count + 1
    /\ last_failure_time' = time
    /\ state' = IF failure_count + 1 >= failure_threshold THEN "OPEN" ELSE StateAtCall
    /\ failures_in_a_row' = failures_in_a_row + 1
    /\ UNCHANGED <<failure_threshold, recovery_timeout, expected_exception,
                   time, BesidesBreaker>>

\* lines 281-286: func raises an exception the except clause does not
\* catch; neither _on_success nor _on_failure runs
CallRaisesOther ==
    /\ LetThrough
    /\ \E e \in ExceptionTypes \ Caught(expected_exception) :
           breaker_call' = Call(TRUE, "raised other")
    /\ state' = StateAtCall
    /\ UNCHANGED <<failure_threshold, recovery_timeout, expected_exception,
                   failure_count, last_failure_time, time,
                   failures_in_a_row, BesidesBreaker>>

\* time.time() advances between two calls
Tick ==
    /\ time < MaxClock
    /\ time' = time + 1
    /\ UNCHANGED <<failure_threshold, recovery_timeout, expected_exception,
                   failure_count, last_failure_time, state, breaker_call,
                   failures_in_a_row, BesidesBreaker>>

BreakerNext ==
    \/ CallBlocked
    \/ CallSucceeds
    \/ CallFails
    \/ CallRaisesOther
    \/ Tick

BreakerSpec == BreakerInit /\ [][BreakerNext]_vars

\* ------------------------------------------------------ with_error_handling
\* the state of the program besides the decorated function
BesidesHandler == <<simulation, manager, breaker, memory_cache>>

\* bound: the largest RetryConfig.max_attempts
MaxAttempts == 4

\* with_error_handling lines 169-171: the decorator's arguments; the
\* wrapper has not been called
HandlerInit ==
    /\ SimulationAtRest
    /\ ManagerAtRest
    /\ BreakerAtRest
    /\ CacheAtRest
    /\ retry_config \in {NoRetryConfig} \cup {RetryConfig(n) : n \in 0..MaxAttempts}
    /\ fallback_result \in {"None", "fallback"}
    /\ attempt = 0
    /\ last_exception = "None"
    /\ invocations = <<>>
    /\ wrapper_result = NotCalled

\* _register_common_errors lines 59-96: the registered exception types and
\* their auto_recoverable flag
known_errors ==
    [e \in {"ValueError", "ConnectionError", "KeyError", "MemoryError"} |->
        e = "ConnectionError"]

\* mutant: every error is taken for auto-recoverable
AutoRecoverable_Always(e) == TRUE

\* get_error_info lines 121-151: looked up by the exact type of the
\* exception; an unregistered type is an unknown error, not auto-recoverable
AutoRecoverable(e) == IF e \in DOMAIN known_errors THEN known_errors[e] ELSE FALSE

\* lines 186-191
max_attempts == IF retry_config = NoRetryConfig THEN 1 ELSE retry_config[1]

Running == wrapper_result.kind = "running"

\* lines 183-191: the wrapper is called
WrapperCalled ==
    /\ wrapper_result = NotCalled
    /\ attempt' = 0
    /\ last_exception' = "None"
    /\ wrapper_result' = [kind |-> "running", value |-> "None"]
    /\ UNCHANGED <<retry_config, fallback_result, invocations, BesidesHandler>>

\* lines 193-195: an attempt returns, and so does the wrapper
AttemptReturns ==
    /\ Running
    /\ attempt < max_attempts
    /\ invocations' = Append(invocations, "returned")
    /\ \E v \in FuncValues : wrapper_result' = [kind |-> "returned", value |-> v]
    /\ UNCHANGED <<retry_config, fallback_result, attempt, last_exception,
                   BesidesHandler>>

\* lines 197-214: the last attempt fails, or an attempt fails with an error
\* that is not auto-recoverable: the fallback result if there is one,
\* otherwise the exception
AttemptFailsForGood ==
    /\ Running
    /\ attempt < max_attempts
    /\ \E e \in ExceptionTypes :
           /\ (attempt = max_attempts - 1 \/ ~AutoRecoverable(e))
           /\ invocations' = Append(invocations, e)
           /\ last_exception' = e
           /\ wrapper_result' = IF fallback_result # "None"
                                THEN [kind |-> "returned", value |-> fallback_result]
                                ELSE [kind |-> "raised", value |-> e]
    /\ UNCHANGED <<retry_config, fallback_result, attempt, BesidesHandler>>

\* lines 197-223: an earlier attempt fails with an auto-recoverable error;
\* the wrapper sleeps and the loop goes on
AttemptFailsAndRetries ==
    /\ Running
    /\ attempt < max_attempts
    /\ \E e \in ExceptionTypes :
           /\ ~(attempt = max_attempts - 1 \/ ~AutoRecoverable(e))
           /\ invocations' = Append(invocations, e)
           /\ last_exception' = e
    /\ attempt' = attempt + 1
    /\ UNCHANGED <<retry_config, fallback_result, wrapper_result, BesidesHandler>>

\* lines 225-227: the loop ends without a return; the last exception is
\* raised if there is one, otherwise the wrapper returns None
LoopEnds ==
    /\ Running
    /\ attempt >= max_attempts
    /\ wrapper_result' = IF last_exception # "None"
                         THEN [kind |-> "raised", value |-> last_exception]
                         ELSE [kind |-> "returned", value |-> "None"]
    /\ UNCHANGED <<retry_config, fallback_result, attempt, last_exception,
                   invocations, BesidesHandler>>

HandlerNext ==
    \/ WrapperCalled
    \/ AttemptReturns
    \/ AttemptFailsForGood
    \/ AttemptFailsAndRetries
    \/ LoopEnds

HandlerSpec == HandlerInit /\ [][HandlerNext]_vars

\* ------------------------------------------------------------- MemoryCache
\* the state of the program besides the cache
BesidesCache == <<simulation, manager, breaker, handler>>

\* the keys and the sizes (in MB, as _estimate_size returns them) of the
\* values that are cached, and the limits a cache is constructed with
Keys == {"a", "b", "c"}
ValueSizes == {1, 2, 3}
CacheLimits == {1, 2}

\* bound: the number of calls of get, put and clear
MaxCalls == 4

\* MemoryCache.__init__ lines 249-253
CacheInit ==
    /\ SimulationAtRest
    /\ ManagerAtRest
    /\ BreakerAtRest
    /\ HandlerAtRest
    /\ max_size_mb \in CacheLimits
    /\ cache = NoEntries
    /\ access_times = NoEntries
    /\ sizes = NoEntries
    /\ timestamp = 0
    /\ evictions = <<>>

\* a dict with one item set, and with one item deleted
SetItem(d, key, value) == [k \in (DOMAIN d) \cup {key} |-> IF k = key THEN value ELSE d[k]]
DelItem(d, key) == [k \in (DOMAIN d) \ {key} |-> d[k]]

RECURSIVE SumOver(_, _)
SumOver(d, keys) ==
    IF keys = {} THEN 0
    ELSE LET k == CHOOSE x \in keys : TRUE
         IN  d[k] + SumOver(d, keys \ {k})

\* _get_total_size lines 284-286, for a sizes dict
GetTotalSize(sz) == SumOver(sz, DOMAIN sz)

\* _evict_lru line 293: the key with the smallest access time
LruKey(at) == CHOOSE k \in DOMAIN at : \A j \in DOMAIN at : at[k] <= at[j]

\* put lines 268-270: _evict_lru is called while the new value does not fit
\* and the cache is not empty.  c is the three dicts and the evictions made
\* so far, each noted with its access time and the access times left.
RECURSIVE EvictWhileFull(_, _)
EvictWhileFull(c, size_mb) ==
    IF GetTotalSize(c.sizes) + size_mb > max_size_mb /\ DOMAIN c.cache # {}
    THEN LET lru_key == LruKey(c.access_times)
         IN  EvictWhileFull(
                 [cache |-> DelItem(c.cache, lru_key),
                  access_times |-> DelItem(c.access_times, lru_key),
                  sizes |-> DelItem(c.sizes, lru_key),
                  evictions |-> Append(c.evictions,
                                       [key |-> lru_key,
                                        at |-> c.access_times[lru_key],
                                        kept |-> {c.access_times[k] :
                                                     k \in (DOMAIN c.access_times) \ {lru_key}}])],
                 size_mb)
    ELSE c

\* get lines 255-260: a hit notes the access time; pd.Timestamp.now() is
\* the clock, which has advanced since the last call
Get(key) ==
    /\ timestamp < MaxCalls
    /\ timestamp' = timestamp + 1
    /\ access_times' = IF key \in DOMAIN cache
                       THEN SetItem(access_times, key, timestamp + 1)
                       ELSE access_times
    /\ UNCHANGED <<max_size_mb, cache, sizes, evictions, BesidesCache>>

\* put lines 262-274; a value is told by its size
Put(key, size_mb) ==
    /\ timestamp < MaxCalls
    /\ timestamp' = timestamp + 1
    /\ LET c == EvictWhileFull([cache |-> cache, access_times |-> access_times,
                                sizes |-> sizes, evictions |-> <<>>], size_mb)
       IN  /\ cache' = SetItem(c.cache, key, size_mb)
           /\ access_times' = SetItem(c.access_times, key, timestamp + 1)
           /\ sizes' = SetItem(c.sizes, key, size_mb)
           /\ evictions' = c.evictions
    /\ UNCHANGED <<max_size_mb, BesidesCache>>

\* clear lines 299-303
Clear ==
    /\ timestamp < MaxCalls
    /\ timestamp' = timestamp + 1
    /\ cache' = NoEntries
    /\ access_times' = NoEntries
    /\ sizes' = NoEntries
    /\ UNCHANGED <<max_size_mb, evictions, BesidesCache>>

CacheNext ==
    \/ \E key \in Keys : Get(key)
    \/ \E key \in Keys, size_mb \in ValueSizes : Put(key, size_mb)
    \/ Clear

CacheSpec == CacheInit /\ [][CacheNext]_vars

\* ---------------------------------------------------------- model sanity
\* the dividend of the numpy division by a zero efficiency is positive, so
\* the quotient is +inf (never nan or -inf)
InfIsPositive ==
    (pc = "loop" /\ round_trip_efficiency = 0 /\ soc_is_np)
        => battery_capacity_kwh - battery_soc_kwh > 0

\* a zero capacity never meets a numpy soc (soc/capacity would be nan)
NoNanPercent ==
    (pc = "loop" /\ battery_capacity_kwh = 0) => ~soc_is_np

TypeOK ==
    /\ pc \in {"idle", "validated", "rejected", "loop", "returned", "failed",
               "attributing", "charted"}
    /\ IsFloat(battery_soc_kwh)
    /\ \A k \in 1..Len(results) : \A f \in HourFields : IsFloat(results[k][f])
    /\ returned \in {"pending", "DataFrame", "None"}

\* ------------------------------------------------------- claim vocabulary
Started == pc \in {"loop", "returned", "failed"}

ValidConfiguration ==
    /\ battery_capacity_mwh >= 0
    /\ battery_power_mw >= 0
    /\ round_trip_efficiency > 0
    /\ round_trip_efficiency <= One

NonNegativeSeries ==
    /\ \A k \in 1..Len(mine_load) : mine_load[k] >= 0
    /\ \A k \in 1..Len(solar_power) : solar_power[k] >= 0
    /\ \A k \in 1..Len(wind_power) : wind_power[k] >= 0

Steps == 1..Len(results)

\* the stored energy before step k
SocBefore(k) == IF k = 1 THEN FMul(battery_capacity_kwh, One \div 2)
                ELSE results[k - 1].battery_soc_kwh

Min2(a, b) == IF a <= b THEN a ELSE b

Abs(x) == IF x < 0 THEN -x ELSE x

Returned == pc = "returned" /\ returned = "DataFrame"

\* ------------------------------------------------------------------- C1
\* C1: for a legal configuration and non-negative series the stored energy
\* stays within [0, capacity] after every step, in the running state and in
\* every ledger record.
C1_SocWithinCapacity ==
    (Started /\ ValidConfiguration /\ NonNegativeSeries) =>
        /\ 0 <= battery_soc_kwh
        /\ battery_soc_kwh <= battery_capacity_kwh
        /\ \A k \in Steps : /\ 0 <= results[k].battery_soc_kwh
                            /\ results[k].battery_soc_kwh <= battery_capacity_kwh

\* ------------------------------------------------------------------- C2
\* C2: in every ledger record at most one of grid import and grid export is
\* nonzero, and at most one of storage charge and storage discharge is
\* nonzero.
C2_ExclusiveFlows ==
    \A k \in Steps :
        /\ ~(results[k].grid_buy_kw # 0 /\ results[k].grid_sell_kw # 0)
        /\ ~(results[k].battery_charge_kw # 0 /\ results[k].battery_discharge_kw # 0)

\* a returned ledger with an importing, discharging hour and an exporting,
\* charging hour
C2_Witness ==
    /\ Returned
    /\ \E k \in Steps : results[k].grid_buy_kw > 0 /\ results[k].battery_discharge_kw > 0
    /\ \E k \in Steps : results[k].grid_sell_kw > 0 /\ results[k].battery_charge_kw > 0

\* ------------------------------------------------------------------- C3
\* what enters the bus minus what leaves it, computed without rounding
Imbalance(r) ==
    (r.mine_load_kw + r.battery_charge_kw + r.grid_sell_kw)
    - (r.renewable_total_kw + r.battery_discharge_kw + r.grid_buy_kw)

\* One times (the change of the stored energy minus efficiency*charge -
\* discharge), computed without rounding
SocDrift(k) ==
    LET r == results[k]
    IN  (r.battery_soc_kwh - SocBefore(k)) * One
        - (round_trip_efficiency * r.battery_charge_kw - r.battery_discharge_kw * One)

\* C3 as stated: at every step demand + charge + export = generation +
\* discharge + import exactly, and the stored energy changes by exactly
\* efficiency*charge - discharge.
C3_ExactConservation ==
    (ValidConfiguration /\ NonNegativeSeries) =>
        \A k \in Steps : Imbalance(results[k]) = 0 /\ SocDrift(k) = 0

\* C3 amended: both balances hold up to the rounding of the floating point
\* operations, u = 2^-Precision being the unit roundoff:
\* |imbalance| <= u * (|net load| + import + export) and
\* |SoC change - (efficiency*charge - discharge)| <= u * (|efficiency*charge| + |SoC after|).
C3_ConservationWithinRounding ==
    \A k \in Steps :
        LET r == results[k]
        IN  /\ Abs(Imbalance(r)) * 2 ^ Precision
                 <= Abs(r.net_load_kw) + Abs(r.grid_buy_kw) + Abs(r.grid_sell_kw)
            /\ Abs(SocDrift(k)) * 2 ^ Precision
                 <= Abs(round_trip_efficiency * r.battery_charge_kw)
                    + Abs(r.battery_soc_kwh) * One

\* a returned ledger of a legal run with an hour whose balance is off by a
\* rounding error and an hour whose stored energy is
C3_Witness ==
    /\ Returned /\ ValidConfiguration /\ NonNegativeSeries
    /\ \E k \in Steps : Imbalance(results[k]) # 0
    /\ \E k \in Steps : SocDrift(k) # 0 /\ results[k].battery_charge_kw > 0

\* ------------------------------------------------------------------- C4
\* C4: in every ledger record the charge power and the discharge power lie
\* between 0 and the maximum power (here: even for a legal configuration and
\* non-negative series).
C4_PowerWithinLimits ==
    (ValidConfiguration /\ NonNegativeSeries) =>
        \A k \in Steps :
            /\ 0 <= results[k].battery_charge_kw
            /\ results[k].battery_charge_kw <= battery_power_kw
            /\ 0 <= results[k].battery_discharge_kw
            /\ results[k].battery_discharge_kw <= battery_power_kw

\* ------------------------------------------------------------------- C5
\* C5: in an hour with net load L > 0 the discharge is min(max power, SoC
\* before the hour, L), the stored energy is lowered by that discharge with
\* no efficiency factor, the grid import is L - discharge when that is
\* positive and 0 otherwise, and charge and grid export are 0.  (The
\* subtractions are the program's floating point subtractions.)
C5_DeficitStep ==
    \A k \in Steps :
        LET r == results[k]
            L == r.net_load_kw
            d == Min2(Min2(battery_power_kw, SocBefore(k)), L)
        IN  L > 0 =>
              /\ r.battery_discharge_kw = d
              /\ r.battery_soc_kwh = FRound(SocBefore(k) - d, 1)
              /\ r.grid_buy_kw = (IF L - d > 0 THEN FRound(L - d, 1) ELSE 0)
              /\ r.battery_charge_kw = 0
              /\ r.grid_sell_kw = 0

\* a returned ledger with a deficit hour served partly by the battery and
\* partly by the grid, and a deficit hour served by the battery alone
C5_Witness ==
    /\ Returned
    /\ \E k \in Steps : /\ results[k].net_load_kw > 0
                        /\ results[k].battery_discharge_kw > 0
                        /\ results[k].grid_buy_kw > 0
    /\ \E k \in Steps : /\ results[k].net_load_kw > 0
                        /\ results[k].battery_discharge_kw = results[k].net_load_kw
                        /\ results[k].grid_buy_kw = 0

\* ------------------------------------------------------------------- C6
\* C6: in an hour with net load L <= 0 (surplus S = -L) the charge is
\* min(max power, (capacity - SoC before)/efficiency, S), the stored energy
\* is raised by charge*efficiency, the grid export is S - charge when that is
\* positive and 0 otherwise, and discharge and grid import are 0.  (For a
\* nonzero efficiency; the operations are the program's floating point
\* operations.)
C6_SurplusStep ==
    round_trip_efficiency # 0 =>
    \A k \in Steps :
        LET r == results[k]
            S == -r.net_load_kw
            room == FRound(battery_capacity_kwh - SocBefore(k), 1)
            lim == IF round_trip_efficiency < 0
                   THEN FRound(-(room * One), -round_trip_efficiency)
                   ELSE FRound(room * One, round_trip_efficiency)
            c == Min2(Min2(battery_power_kw, lim), S)
        IN  S >= 0 =>
              /\ r.battery_charge_kw = c
              /\ r.battery_soc_kwh
                   = FRound(SocBefore(k) + FRound(c * round_trip_efficiency, One), 1)
              /\ r.grid_sell_kw = (IF S - c > 0 THEN FRound(S - c, 1) ELSE 0)
              /\ r.battery_discharge_kw = 0
              /\ r.grid_buy_kw = 0

\* a returned ledger of a run with efficiency below 1 that has a surplus
\* hour absorbed by the battery alone and a surplus hour that also exports
C6_Witness ==
    /\ Returned
    /\ round_trip_efficiency > 0 /\ round_trip_efficiency < One
    /\ \E k \in Steps : /\ results[k].net_load_kw < 0
                        /\ results[k].battery_charge_kw = -results[k].net_load_kw
                        /\ results[k].battery_soc_kwh > SocBefore(k)
                        /\ results[k].grid_sell_kw = 0
    /\ \E k \in Steps : /\ results[k].net_load_kw < 0
                        /\ results[k].battery_charge_kw > 0
                        /\ results[k].grid_sell_kw > 0

\* ------------------------------------------------------------------- C7
\* C7: storage has priority over the grid: grid import is nonzero only if
\* the discharge of that hour equals min(max power, SoC before the hour),
\* and grid export is nonzero only if the charge of that hour equals
\* min(max power, (capacity - SoC before)/efficiency).  (With a zero
\* efficiency the capacity term is infinite.)
C7_StorageBeforeGrid ==
    \A k \in Steps :
        LET r == results[k]
            room == FRound(battery_capacity_kwh - SocBefore(k), 1)
        IN  /\ r.grid_buy_kw # 0 =>
                  r.battery_discharge_kw = Min2(battery_power_kw, SocBefore(k))
            /\ r.grid_sell_kw # 0 =>
                  r.battery_charge_kw =
                      (IF round_trip_efficiency = 0 THEN battery_power_kw
                       ELSE Min2(battery_power_kw,
                                 IF round_trip_efficiency < 0
                                 THEN FRound(-(room * One), -round_trip_efficiency)
                                 ELSE FRound(room * One, round_trip_efficiency)))

\* a returned ledger of a legal run with an importing hour that empties the
\* battery below its power limit and an exporting hour whose charge is set
\* by the room left in the battery
C7_Witness ==
    /\ Returned /\ ValidConfiguration
    /\ \E k \in Steps : /\ results[k].grid_buy_kw > 0
                        /\ results[k].battery_discharge_kw = SocBefore(k)
                        /\ SocBefore(k) > 0
                        /\ SocBefore(k) < battery_power_kw
    /\ \E k \in Steps : /\ results[k].grid_sell_kw > 0
                        /\ results[k].battery_charge_kw > 0
                        /\ results[k].battery_charge_kw < battery_power_kw

\* ------------------------------------------------------------------- C8
SameLength ==
    /\ Len(mine_load) >= 1
    /\ Len(solar_power) = Len(mine_load)
    /\ Len(wind_power) = Len(mine_load)

\* C8: when the series do not all have the same positive length the run
\* fails and produces no ledger.
C8_ShapeMismatchFails ==
    ~SameLength => /\ returned # "DataFrame"
                   /\ pc # "returned"

\* ------------------------------------------------------------------- C9
\* C9: with a negative capacity, a negative maximum power or an efficiency
\* outside (0,1] the engine fails instead of running any step.
C9_InvalidConfigurationFails ==
    ~ValidConfiguration => /\ results = <<>>
                           /\ returned # "DataFrame"

\* ------------------------------------------------------------------ C10
\* C10: when a value of the demand series or of a generation series is
\* negative the input is rejected: no step is simulated and no ledger is
\* returned.
C10_NegativeInputRejected ==
    ~NonNegativeSeries => /\ results = <<>>
                          /\ returned # "DataFrame"

\* ------------------------------------------------------------------ C11
\* C11: the engine fails atomically: a run that fails has executed no step
\* of the loop (every error is detected before the first step), and a run
\* that hands back a ledger hands back one record per demand step, never a
\* partial one.
C11_FailsAtomically ==
    /\ pc = "failed" => (results = <<>> /\ returned = "None")
    /\ returned = "DataFrame" => Len(results) = Len(mine_load)

\* ------------------------------------------------------------------ C12
ValidInputs == SameLength /\ ValidConfiguration /\ NonNegativeSeries

\* C12: for valid inputs of length n >= 1 the run does not fail and the
\* ledger it returns has exactly n records, record i holding the demand,
\* solar and wind value of input index i.
C12_LedgerMatchesInput ==
    ValidInputs =>
        /\ pc # "failed"
        /\ Returned =>
             /\ Len(results) = Len(mine_load)
             /\ \A i \in Steps : /\ results[i].mine_load_kw = mine_load[i]
                                 /\ results[i].solar_power_kw = solar_power[i]
                                 /\ results[i].wind_power_kw = wind_power[i]

\* ------------------------------------------------------------------ C13
\* C13: a zero-capacity storage is accepted: with capacity 0 and otherwise
\* valid inputs the run returns a ledger in which every record has the whole
\* positive net load as grid import, no discharge, no charge and SoC 0
\* (scenario A: one step of positive demand, no generation, maximum power 0,
\* efficiency 1).
C13_ZeroCapacityServedByGrid ==
    (ValidInputs /\ battery_capacity_mwh = 0) =>
        /\ pc # "failed"
        /\ \A k \in Steps :
             /\ results[k].grid_buy_kw
                  = (IF results[k].net_load_kw > 0 THEN results[k].net_load_kw ELSE 0)
             /\ results[k].battery_discharge_kw = 0
             /\ results[k].battery_charge_kw = 0
             /\ results[k].battery_soc_kwh = 0

\* ------------------------------------------------------------------ C14
\* C14: in every ledger record the import cost is grid import times the
\* import price, the export revenue is grid export times the export price
\* (the same prices at every step), and the net grid cost is cost minus
\* revenue.
C14_CostIsImportTimesPrice ==
    \A k \in Steps :
        LET r == results[k]
        IN  /\ r.grid_cost_usd = FMul(r.grid_buy_kw, grid_purchase_price)
            /\ r.grid_revenue_usd = FMul(r.grid_sell_kw, grid_sell_price)
            /\ r.net_grid_cost_usd = FSub(r.grid_cost_usd, r.grid_revenue_usd)

\* ------------------------------------------------------------------ C17
\* C17: (legal configuration, non-negative series) a step whose demand and
\* aggregate generation are both zero leaves the stored energy as it was
\* before the step and records zero charge, discharge, import and export.
C17_IdleStepChangesNothing ==
    (ValidConfiguration /\ NonNegativeSeries) =>
        \A k \in Steps :
            LET r == results[k]
            IN  (r.mine_load_kw = 0 /\ r.renewable_total_kw = 0) =>
                  /\ r.battery_soc_kwh = SocBefore(k)
                  /\ r.battery_charge_kw = 0
                  /\ r.battery_discharge_kw = 0
                  /\ r.grid_buy_kw = 0
                  /\ r.grid_sell_kw = 0

\* ------------------------------------------------------------------ C15
\* C15: the stored energy of a run is created as f0 * capacity, f0 being the
\* configured initial fraction (one-half when nothing else is configured);
\* this holds for the first run and for every later run, whatever the
\* earlier run left behind.
C15_StartsFromConfiguredFraction ==
    (pc = "loop" /\ results = <<>>) =>
        battery_soc_kwh = FMul(battery_capacity_kwh, initial_soc)

AttributionDone == pc = "attributing" /\ hour = Len(results)

\* the sum of the magnitudes of a ledger column, without rounding
RECURSIVE AbsSum(_, _)
AbsSum(column, n) ==
    IF n = 0 THEN 0 ELSE AbsSum(column, n - 1) + Abs(results[n][column])

\* attributed into a destination minus the engine's aggregate for it
LoadGap ==
    (flows.solar_to_load + flows.wind_to_load + flows.grid_to_load + flows.battery_to_load)
    - ColumnSum("mine_load_kw", Len(results))
ChargeGap ==
    (flows.solar_to_battery + flows.wind_to_battery)
    - ColumnSum("battery_charge_kw", Len(results))
ExportGap ==
    (flows.solar_to_grid + flows.wind_to_grid)
    - ColumnSum("grid_sell_kw", Len(results))

\* no record of the ledger has the negative charge that follows an
\* overshoot of the stored energy (C1)
NoNegativeCharge == \A k \in Steps : results[k].battery_charge_kw >= 0

C19_NoDoubleCounting ==
    \A k \in 1..Len(hours) :
        LET h == hours[k]
            r == results[k]
            remainder == h.renewable_total - h.renewable_to_load
        IN  (h.renewable_total > 0 /\ NoNegativeCharge) =>
              /\ h.charge_from_renewable = Min2(r.battery_charge_kw, remainder)
              /\ h.sell_from_renewable
                   = Min2(r.grid_sell_kw, remainder - h.charge_from_renewable)
              /\ h.charge_from_renewable + h.sell_from_renewable <= remainder

\* C19 amended: the remainder is the rounded difference generation -
\* renewable-to-load; a positive charge is attributed as min(charge,
\* remainder) (nothing otherwise); the remainder is lowered by it with a
\* rounded subtraction before the export is attributed as min(export, what
\* is left); so the two attributions are non-negative and together at most
\* (1+u)^2 * (generation - renewable-to-load), u = 2^-Precision.
C19_NoDoubleCountingWithinRounding ==
    \A k \in 1..Len(hours) :
        LET h == hours[k]
            r == results[k]
            remainder == FRound(h.renewable_total - h.renewable_to_load, 1)
            cf == IF r.battery_charge_kw > 0 /\ remainder > 0
                  THEN Min2(r.battery_charge_kw, remainder) ELSE 0
            left == FRound(remainder - cf, 1)
            sf == IF r.grid_sell_kw > 0 /\ left > 0
                  THEN Min2(r.grid_sell_kw, left) ELSE 0
        IN  h.renewable_total > 0 =>
              /\ h.charge_from_renewable = cf
              /\ h.remaining_after_charge = left
              /\ h.sell_from_renewable = sf
              /\ cf >= 0 /\ sf >= 0
              /\ (cf + sf) * 2 ^ Precision * 2 ^ Precision
                   <= (h.renewable_total - h.renewable_to_load)
                      * (2 ^ Precision + 1) * (2 ^ Precision + 1)

\* an attributed hour that charges and exports, in which the rounded
\* remainder lets the two attributions exceed generation - renewable-to-load
C19_Witness ==
    \E k \in 1..Len(hours) :
        /\ hours[k].charge_from_renewable > 0
        /\ hours[k].sell_from_renewable > 0
        /\ hours[k].charge_from_renewable + hours[k].sell_from_renewable
             > hours[k].renewable_total - hours[k].renewable_to_load

\* ------------------------------------------------------------------ C20
\* what the finished iterations have added to an accumulator
RECURSIVE Accumulated(_, _)
Accumulated(flow, n) ==
    IF n = 0 THEN 0 ELSE FAdd(Accumulated(flow, n - 1), hours[n][flow])

\* C20: in every attributed hour with aggregate generation R > 0 the
\* renewable-to-load amount is min(R, demand); solar gets the share
\* (solar/R) of it and wind the share (wind/R) (each quotient and product a
\* floating point operation); what is left of R is the remainder offered to
\* charge and export; and these shares are what the load accumulators hold.
C20_ProportionalSplit ==
    /\ \A k \in 1..Len(hours) :
           LET h == hours[k]
               r == results[k]
               R == FRound(r.solar_power_kw + r.wind_power_kw, 1)
               toLoad == Min2(R, r.mine_load_kw)
           IN  R > 0 =>
                 /\ h.renewable_to_load = toLoad
                 /\ h.solar_to_load
                      = FRound(toLoad * FRound(r.solar_power_kw * One, R), One)
                 /\ h.wind_to_load
                      = FRound(toLoad * FRound(r.wind_power_kw * One, R), One)
                 /\ h.remaining_renewable = FRound(R - toLoad, 1)
    /\ pc = "attributing" =>
           /\ flows.solar_to_load = Accumulated("solar_to_load", hour)
           /\ flows.wind_to_load = Accumulated("wind_to_load", hour)

\* an attributed hour in which both sources generate, the demand is
\* positive and below the generation, both sources get a share of the load
\* and the rest goes to the battery or the grid
C20_Witness ==
    \E k \in 1..Len(hours) :
        /\ results[k].solar_power_kw > 0 /\ results[k].wind_power_kw > 0
        /\ results[k].mine_load_kw > 0
        /\ results[k].mine_load_kw < hours[k].renewable_total
        /\ hours[k].renewable_to_load = results[k].mine_load_kw
        /\ hours[k].solar_to_load > 0 /\ hours[k].wind_to_load > 0
        /\ hours[k].charge_from_renewable + hours[k].sell_from_renewable > 0
        /\ flows.solar_to_load > 0

\* ------------------------------------------------------------------ C21
RenewableFlows == {"solar_to_load", "solar_to_battery", "solar_to_grid",
                   "wind_to_load", "wind_to_battery", "wind_to_grid"}

\* C21: an attributed hour without generation (R = 0) adds nothing to any of
\* the six renewable totals and divides nothing by R (no share is
\* computed); in every hour the whole grid import is added to grid->load
\* and the whole discharge to storage->load, with no share of either going
\* to a renewable source; and the accumulators hold exactly these
\* additions.
C21_NoGenerationStepSkipped ==
    /\ \A k \in 1..Len(hours) :
           LET h == hours[k]
               r == results[k]
           IN  /\ h.grid_to_load = r.grid_buy_kw
               /\ h.battery_to_load = r.battery_discharge_kw
               /\ (h.solar_ratio # 0 \/ h.wind_ratio # 0) => h.renewable_total > 0
               /\ FRound(r.solar_power_kw + r.wind_power_kw, 1) = 0 =>
                     /\ h.solar_ratio = 0 /\ h.wind_ratio = 0
                     /\ \A f \in RenewableFlows :
                            /\ h[f] = 0
                            /\ Accumulated(f, k) = Accumulated(f, k - 1)
    /\ pc = "attributing" =>
           /\ \A f \in RenewableFlows : flows[f] = Accumulated(f, hour)
           /\ flows.grid_to_load = Accumulated("grid_to_load", hour)
           /\ flows.battery_to_load = Accumulated("battery_to_load", hour)

\* an hour without generation that imports and discharges has been
\* attributed after an hour whose generation served the load
C21_Witness ==
    /\ pc = "attributing" /\ hour = 2
    /\ hours[2].renewable_total = 0
    /\ results[2].grid_buy_kw > 0 /\ results[2].battery_discharge_kw > 0
    /\ flows.solar_to_load > 0 /\ flows.solar_to_load = hours[1].solar_to_load
    /\ flows.grid_to_load >= results[2].grid_buy_kw
    /\ flows.battery_to_load >= results[2].battery_discharge_kw

\* ------------------------------------------------------------------ C22
\* the nodes of the (source, destination) pair of an accumulator
PairOf(flow) ==
    CASE flow = "solar_to_load"    -> <<SolarNode, LoadNode>>
      [] flow = "solar_to_battery" -> <<SolarNode, ChargeNode>>
      [] flow = "solar_to_grid"    -> <<SolarNode, GridSellNode>>
      [] flow = "wind_to_load"     -> <<WindNode, LoadNode>>
      [] flow = "wind_to_battery"  -> <<WindNode, ChargeNode>>
      [] flow = "wind_to_grid"     -> <<WindNode, GridSellNode>>
      [] flow = "grid_to_load"     -> <<GridBuyNode, LoadNode>>
      [] flow = "battery_to_load"  -> <<DischargeNode, LoadNode>>

\* the pair of the accumulator is one of the links of the figure
Reported(flow) ==
    \E i \in 1..Len(links) :
        links[i][1] = PairOf(flow)[1] /\ links[i][2] = PairOf(flow)[2]

\* the figure has been returned by the normal path
Charted == pc = "charted" /\ chart = "sankey"

\* C22 as stated: a pair is in the final report exactly when its total
\* accumulated over the ledger, in the ledger's own unit (kWh), exceeds
\* 0.01.
C22_ReportedIffAboveThreshold ==
    Charted =>
        \A f \in DOMAIN flows :
            Reported(f) <=> Accumulated(f, Len(hours)) * 100 > One

\* ------------------------------------------------------------------ C23
\* C23 as stated: handed a ledger of zero records, create_sankey_chart
\* returns the normal figure with no link; it does not take its failure
\* path.
C23_EmptyLedgerGivesEmptyReport ==
    (pc = "charted" /\ results = <<>>) => (chart = "sankey" /\ links = <<>>)

\* ------------------------------------------------------------------ C24
\* C24 as stated: once run_simulation has returned the ledger (a frame with
\* records), no step of a consumer changes a record or the set of the
\* ledger's columns.
C24_LedgerReadOnly ==
    [][(returned = "DataFrame" /\ results # <<>>)
          => (results' = results /\ columns' = columns)]_vars

\* ------------------------------------------------------------------ C25
\* attributed from a source to the three destinations minus the source's
\* total generation in the ledger
SolarGap ==
    (flows.solar_to_load + flows.solar_to_battery + flows.solar_to_grid)
    - ColumnSum("solar_power_kw", Len(results))
WindGap ==
    (flows.wind_to_load + flows.wind_to_battery + flows.wind_to_grid)
    - ColumnSum("wind_power_kw", Len(results))

\* C25 as stated: for a ledger of a valid run the totals attributed from
\* solar to load, storage charge and grid export sum to the solar
\* generation of the ledger, and likewise for wind.  (Here even for ledgers
\* without a negative charge.)
C25_GenerationFullyAttributed ==
    (AttributionDone /\ ValidInputs /\ NoNegativeCharge) =>
        SolarGap = 0 /\ WindGap = 0

\* C25 amended: the sums agree with the generation up to rounding.  With n
\* the number of records and u = 2^-Precision:
\* |gap of a source| <= (2n+2) u * (total solar + total wind generation).
C25_GenerationAttributedWithinRounding ==
    (AttributionDone /\ ValidInputs) =>
        LET n == Len(results)
            generation == AbsSum("solar_power_kw", n) + AbsSum("wind_power_kw", n)
        IN  /\ Abs(SolarGap) * 2 ^ Precision <= (2 * n + 2) * generation
            /\ Abs(WindGap) * 2 ^ Precision <= (2 * n + 2) * generation

\* an attributed ledger in which both sources generated, their generation
\* went to the load, into the storage and to the grid, and the solar sum is
\* off by a rounding error
C25_Witness ==
    /\ AttributionDone /\ ValidInputs
    /\ flows.solar_to_load > 0 /\ flows.wind_to_load > 0
    /\ flows.solar_to_battery > 0 /\ flows.wind_to_grid > 0
    /\ SolarGap # 0


\* ------------------------------------------------------------------ C26
\* C26: once cancel_task(task_id) has returned True, the status of the task
\* is CANCELLED in every later state in which the task is still recorded,
\* whatever the worker thread does afterwards.
C26_CancelledStaysCancelled ==
    \A id \in cancel_true :
        id \in DOMAIN tasks => tasks[id].status = "cancelled"

\* ------------------------------------------------------------------ C27
\* the worker of the task is past its status update and cancel_task never
\* returned True for the task
Settled(id) ==
    /\ id \in DOMAIN thread
    /\ thread[id].at \in {"finally", "ended"}
    /\ id \notin cancel_true

\* the record of a settled task: COMPLETED with the value the function
\* returned and progress 1.0, or FAILED with the text of what it raised
SettledRecord(id) ==
    \/ /\ thread[id].got \in FuncValues
       /\ tasks[id].status = "completed"
       /\ tasks[id].result = thread[id].got
       /\ tasks[id].progress = 100
    \/ /\ thread[id].got \notin FuncValues
       /\ tasks[id].status = "failed"
       /\ tasks[id].error = thread[id].got

\* C27: every submitted task that is never cancelled and whose function
\* terminates eventually has its worker ended; from the status update on
\* its record is COMPLETED with the result and progress 1.0 (the function
\* returned) or FAILED with the error text (it raised); once the worker has
\* ended the id is not in running_tasks; and the status, result and error
\* of the record do not change again.
C27_TaskReachesOneTerminalStatus ==
    /\ \A id \in TaskIds :
           (id \in DOMAIN thread)
               ~> (id \in cancel_true \/ (id \in DOMAIN thread /\ thread[id].at = "ended"))
    /\ [](\A id \in TaskIds :
              /\ (Settled(id) /\ id \in DOMAIN tasks) => SettledRecord(id)
              /\ (Settled(id) /\ thread[id].at = "ended") => id \notin running_tasks)
    /\ [][\A id \in TaskIds :
              (Settled(id) /\ id \in DOMAIN tasks /\ id \in DOMAIN tasks')
                  => /\ tasks'[id].status = tasks[id].status
                     /\ tasks'[id].result = tasks[id].result
                     /\ tasks'[id].error = tasks[id].error]_vars

\* a task that was never cancelled has completed: result stored, progress
\* 1.0, thread no longer registered
C27_Witness ==
    \E id \in TaskIds :
        /\ Settled(id)
        /\ thread[id].at = "ended"
        /\ id \in DOMAIN tasks
        /\ tasks[id].status = "completed"
        /\ tasks[id].result \in FuncValues
        /\ tasks[id].progress = 100
        /\ id \notin running_tasks

\* ------------------------------------------------------------------ C28
\* C28: a CircuitBreaker with failure_threshold >= 1 is OPEN only after
\* failure_threshold failures with no success in between (a failure is an
\* exception that its expected_exception catches); a call made while it is
\* OPEN and less than recovery_timeout has elapsed since the last failure
\* raises without invoking the function; a call made while it is OPEN after
\* the timeout invokes the function, and its success leaves the breaker
\* CLOSED with failure_count 0 while its failure leaves it OPEN.
C28_BreakerOpensAndRecovers ==
    /\ state = "OPEN" => failures_in_a_row >= failure_threshold
    /\ (breaker_call.state_before = "OPEN" /\ ~breaker_call.waited)
           => /\ ~breaker_call.invoked
              /\ breaker_call.outcome = "blocked"
              /\ state = "OPEN"
    /\ (breaker_call.state_before = "OPEN" /\ breaker_call.waited)
           => /\ breaker_call.invoked
              /\ breaker_call.outcome = "returned"
                     => (state = "CLOSED" /\ failure_count = 0)
              /\ breaker_call.outcome = "failed" => state = "OPEN"

\* a breaker that opened after two failures in a row and waited out a
\* positive timeout has let a call through, which succeeded
C28_Witness ==
    /\ failure_threshold = 2
    /\ recovery_timeout > 0
    /\ breaker_call.state_before = "OPEN"
    /\ breaker_call.waited
    /\ breaker_call.outcome = "returned"
    /\ state = "CLOSED"
    /\ failure_count = 0

\* ------------------------------------------------------------------ C29
\* the wrapper has returned or raised
Finished == wrapper_result.kind \in {"returned", "raised"}

\* C29: per call of the wrapper the function is invoked at most
\* max_attempts times, exactly once without a retry_config; every
\* invocation that was followed by another one failed with a
\* ConnectionError, the one registered auto-recoverable error; and when the
\* last permitted attempt has failed the wrapper has returned
\* fallback_result if it is not None and has raised that exception
\* otherwise.
C29_RetriesOnlyRecoverableThenFallback ==
    /\ Len(invocations) <= max_attempts
    /\ (Finished /\ retry_config = NoRetryConfig) => Len(invocations) = 1
    /\ \A i \in 1..(Len(invocations) - 1) : invocations[i] = "ConnectionError"
    /\ (/\ Finished
        /\ max_attempts >= 1
        /\ Len(invocations) = max_attempts
        /\ invocations[Len(invocations)] # "returned")
           => wrapper_result =
                  IF fallback_result # "None"
                  THEN [kind |-> "returned", value |-> fallback_result]
                  ELSE [kind |-> "raised", value |-> invocations[Len(invocations)]]

\* two attempts allowed, both failed with a connection error, no fallback:
\* the second error is raised
C29_Witness ==
    /\ retry_config = RetryConfig(2)
    /\ fallback_result = "None"
    /\ invocations = <<"ConnectionError", "ConnectionError">>
    /\ wrapper_result = [kind |-> "raised", value |-> "ConnectionError"]

\* ------------------------------------------------------------------ C30
\* the recorded sizes add up to at most max_size_mb
CacheWithinLimit == GetTotalSize(sizes) <= max_size_mb

\* every entry the last put evicted was the one least recently put or read
EvictionsAreLru ==
    \A i \in 1..Len(evictions) : \A t \in evictions[i].kept : evictions[i].at < t

\* the three dicts hold the same keys
CacheKeysAgree ==
    /\ DOMAIN cache = DOMAIN access_times
    /\ DOMAIN cache = DOMAIN sizes

\* C30: after any sequence of put, get and clear calls the recorded sizes
\* of the cached entries add up to at most max_size_mb, every evicted entry
\* was the least recently put or read one, and cache, access_times and
\* sizes hold the same keys.
C30_CacheBoundedLruConsistent ==
    /\ CacheWithinLimit
    /\ EvictionsAreLru
    /\ CacheKeysAgree
====
